---- MODULE Spec2Model ----
(***************************************************************************)
(* A model of svg-to-avif (src/index.js): the batch that selects SVG       *)
(* files, converts each through two remote tools in a browser session,     *)
(* gates on the artifact's size, rewrites the references to the file name  *)
(* and deletes the original.                                               *)
(*                                                                         *)
(* src/index.js holds two variants of the program: lines 1-177 (size       *)
(* threshold at selection, size gate in convert) and lines 179-336         *)
(* (<image> test at selection, no gate).  The variable variant says which  *)
(* one a run executes.                                                     *)
(*                                                                         *)
(* Strings are sequences of one-character strings.                         *)
(***************************************************************************)
EXTENDS Integers, Sequences, FiniteSets, TLC

(***************************************************************************)
(* Strings                                                                 *)
(***************************************************************************)

\* s[from..] starts with sub (1-based position from).
StartsAt(s, sub, from) ==
  /\ from >= 1
  /\ from + Len(sub) - 1 <= Len(s)
  /\ \A j \in 1..Len(sub) : s[from + j - 1] = sub[j]

\* String.prototype.indexOf: the first position of sub in s, 0 when absent.
IndexOf(s, sub) ==
  LET hits == {i \in 1..(Len(s) + 1) : StartsAt(s, sub, i)}
  IN  IF hits = {} THEN 0 ELSE CHOOSE i \in hits : \A j \in hits : i <= j

\* String.prototype.includes.
Includes(s, sub) == IndexOf(s, sub) # 0

\* String.prototype.replace(pattern: string, replacement): the FIRST occurrence
\* only is replaced; s is returned as is when pattern does not occur.
ReplaceFirst(s, pat, rep) ==
  LET i == IndexOf(s, pat)
  IN  IF i = 0 THEN s
      ELSE SubSeq(s, 1, i - 1) \o rep \o SubSeq(s, i + Len(pat), Len(s))

DotSvg == <<".", "s", "v", "g">>
DotAvif == <<".", "a", "v", "i", "f">>

\* file.name.replace(".svg", ".avif")
AvifName(name) == ReplaceFirst(name, DotSvg, DotAvif)

(***************************************************************************)
(* new RegExp(originalName, "g") for the file names of the model: their    *)
(* characters are literals, '.', '(' and ')'.  A group only captures, so   *)
(* the pattern matches what its atoms (the pattern without parentheses)    *)
(* match one after the other; '.' matches any character but a newline.     *)
(***************************************************************************)
RECURSIVE ParenDepthOk(_, _, _)
\* The parentheses of pat[i..] balance, starting at nesting depth d.
ParenDepthOk(pat, i, d) ==
  IF i > Len(pat) THEN d = 0
  ELSE IF pat[i] = "(" THEN ParenDepthOk(pat, i + 1, d + 1)
  ELSE IF pat[i] = ")" THEN d > 0 /\ ParenDepthOk(pat, i + 1, d - 1)
  ELSE ParenDepthOk(pat, i + 1, d)

\* new RegExp(pat) does not throw a SyntaxError.
RegExpValid(pat) == ParenDepthOk(pat, 1, 0)

\* The atoms of the pattern: its characters without the grouping parentheses.
Atoms(pat) == SelectSeq(pat, LAMBDA c : c \notin {"(", ")"})

AtomMatches(a, c) == IF a = "." THEN c # "\n" ELSE a = c

\* The compiled pattern matches s at position i.
RegExpMatchAt(pat, s, i) ==
  LET as == Atoms(pat)
  IN  /\ i + Len(as) - 1 <= Len(s)
      /\ \A j \in 1..Len(as) : AtomMatches(as[j], s[i + j - 1])

RECURSIVE RegExpReplaceFrom(_, _, _, _)
\* content.replace(new RegExp(pat, "g"), rep) from position i on: matches are
\* found left to right and do not overlap.  (An empty match cannot occur: a
\* file name has at least the atoms of its extension.)
RegExpReplaceFrom(s, pat, rep, i) ==
  IF i > Len(s) THEN <<>>
  ELSE IF Len(Atoms(pat)) > 0 /\ RegExpMatchAt(pat, s, i)
       THEN rep \o RegExpReplaceFrom(s, pat, rep, i + Len(Atoms(pat)))
       ELSE <<s[i]>> \o RegExpReplaceFrom(s, pat, rep, i + 1)

\* content.replace(new RegExp(originalName, "g"), newName)
RegExpReplaceAll(s, pat, rep) == RegExpReplaceFrom(s, pat, rep, 1)

RECURSIVE LiteralReplaceFrom(_, _, _, _)
\* Every literal occurrence of sub in s[i..] replaced by rep, left to right.
LiteralReplaceFrom(s, sub, rep, i) ==
  IF i > Len(s) THEN <<>>
  ELSE IF Len(sub) > 0 /\ StartsAt(s, sub, i)
       THEN rep \o LiteralReplaceFrom(s, sub, rep, i + Len(sub))
       ELSE <<s[i]>> \o LiteralReplaceFrom(s, sub, rep, i + 1)

LiteralReplaceAll(s, sub, rep) == LiteralReplaceFrom(s, sub, rep, 1)

(***************************************************************************)
(* The file tree                                                           *)
(*                                                                         *)
(* A path is [dir, name]: dir the directory's segments below the working   *)
(* directory, name the base name.  fs maps each existing path to           *)
(* [size, content]; a path outside DOMAIN fs does not exist.  The content  *)
(* of an SVG file is a sequence of tokens (the markup pieces the           *)
(* selection looks at), that of a text file a sequence of characters.      *)
(***************************************************************************)
Path(d, n) == [dir |-> d, name |-> n]
File(sz, c) == [size |-> sz, content |-> c]

NoPath == Path(<<>>, <<>>)
\* The size of a file that was not stat-ed.
NoSize == 0 - 1

\* path.join(file.dir, name) for a candidate file
Sibling(p, n) == Path(p.dir, n)

EndsWith(s, suf) == Len(suf) <= Len(s) /\ StartsAt(s, suf, Len(s) - Len(suf) + 1)

\* GLOB_IGNORE: "node_modules/**", "dist/**", "build/**", ".*/**"
DotSegments == {".git", ".vscode"}
GLOB_IGNORE(p) ==
  /\ Len(p.dir) >= 1
  /\ p.dir[1] \in {"node_modules", "dist", "build"} \cup DotSegments

\* glob's "**" and "*" do not match a dot-prefixed segment or name.
GlobWalks(p) ==
  /\ \A i \in 1..Len(p.dir) : p.dir[i] \notin DotSegments
  /\ Len(p.name) >= 1 /\ p.name[1] # "."

\* glob("**/*.svg", {cwd: currentDir, ignore: GLOB_IGNORE})
GlobSvg(tree) ==
  {p \in DOMAIN tree : GlobWalks(p) /\ EndsWith(p.name, DotSvg) /\ ~GLOB_IGNORE(p)}

TextExts ==
  { <<".", "j", "s">>, <<".", "j", "s", "x">>, <<".", "t", "s">>,
    <<".", "t", "s", "x">>, <<".", "h", "t", "m", "l">>, <<".", "c", "s", "s">>,
    <<".", "s", "c", "s", "s">>, <<".", "m", "d">>, <<".", "j", "s", "o", "n">> }

\* glob("**/*.{js,jsx,ts,tsx,html,css,scss,md,json}", {cwd, ignore: GLOB_IGNORE})
GlobText(tree) ==
  {p \in DOMAIN tree :
     /\ GlobWalks(p)
     /\ \E e \in TextExts : EndsWith(p.name, e)
     /\ ~GLOB_IGNORE(p)}

\* The orders in which glob may list a set of paths.
Orderings(S) ==
  {q \in [1..Cardinality(S) -> S] : \A i, j \in 1..Cardinality(S) : q[i] = q[j] => i = j}

WriteFile(tree, p, f) == (p :> f) @@ tree
Unlink(tree, p) == [q \in (DOMAIN tree) \ {p} |-> tree[q]]

(***************************************************************************)
(* Candidate selection (main, the files.map callback)                      *)
(***************************************************************************)
SvgWidthOpen == "<svg width=\""
Quote == "\""
ImageOpen == "<image"
NoMatch == <<"undefined">>
\* A JavaScript number of the model: an integer or NaN.
Num(n) == [nan |-> FALSE, int |-> n]
NaN == [nan |-> TRUE, int |-> 0]

\* /<svg width="(.*?)"/.exec(content)?.[1]: the text between the first
\* `<svg width="` that has a closing quote on its line and that quote.
ExecWidth(content) ==
  LET closes(i) == {j \in (i + 1)..Len(content) :
                      /\ content[j] = Quote
                      /\ \A m \in (i + 1)..(j - 1) : content[m] # "\n"}
      opens == {i \in 1..Len(content) : content[i] = SvgWidthOpen /\ closes(i) # {}}
  IN  IF opens = {} THEN NoMatch
      ELSE LET i == CHOOSE x \in opens : \A y \in opens : x <= y
               j == CHOOSE x \in closes(i) : \A y \in closes(i) : x <= y
           IN  SubSeq(content, i + 1, j - 1)

\* /<image/.test(content)
TestImage(content) == \E i \in 1..Len(content) : content[i] = ImageOpen

\* !width: undefined and the empty string are falsy.
Falsy(width) == width = NoMatch \/ width = <<>>

Digits == {"0", "1", "2", "3", "4", "5", "6", "7", "8", "9"}
DigitVal(c) ==
  CASE c = "0" -> 0 [] c = "1" -> 1 [] c = "2" -> 2 [] c = "3" -> 3 [] c = "4" -> 4
    [] c = "5" -> 5 [] c = "6" -> 6 [] c = "7" -> 7 [] c = "8" -> 8 [] c = "9" -> 9

RECURSIVE DecimalValue(_)
DecimalValue(ds) ==
  IF ds = <<>> THEN 0
  ELSE 10 * DecimalValue(SubSeq(ds, 1, Len(ds) - 1)) + DigitVal(ds[Len(ds)])

\* Number(width) for a non-empty string of the model's alphabet: a string of
\* decimal digits is its value, anything else is NaN.
ToNumber(width) ==
  IF \A i \in 1..Len(width) : width[i] \in Digits THEN Num(DecimalValue(width)) ELSE NaN

\* Mutant of TargetWidth: Math.floor for Math.round.
TargetWidthFloor(n) ==
  IF n.nan THEN NaN ELSE Num(3 * n.int + (124760 * n.int + 196661) \div 1000000)

\* Math.round(3.12476 * Number(width) + 0.196661), in millionths; the whole
\* part 3 * width is kept apart so that the products stay within 32 bits.
TargetWidth(n) ==
  IF n.nan THEN NaN
  ELSE Num(3 * n.int + (124760 * n.int + 196661 + 500000) \div 1000000)

MinSize == 10 * 1024

\* Mutant of TooSmall: the threshold is taken in bytes, not KiB.
TooSmallBytes(size) == size < 10

\* stats.size < 10 * 1024 (first variant)
TooSmall(size) == size < MinSize

\* The callback's result for one discovered file: a candidate, or null.
Null == [path |-> NoPath, dir |-> <<>>, name |-> <<>>, content |-> <<>>, width |-> NaN]
Candidate(p, f) ==
  [path |-> p, dir |-> p.dir, name |-> p.name, content |-> f.content,
   width |-> TargetWidth(ToNumber(ExecWidth(f.content)))]

\* First variant: size threshold, then the width.
Select1(p, f) ==
  IF TooSmall(f.size) THEN Null
  ELSE IF Falsy(ExecWidth(f.content)) THEN Null
  ELSE Candidate(p, f)

\* Second variant: width and <image>.
Select2(p, f) ==
  IF Falsy(ExecWidth(f.content)) \/ ~TestImage(f.content) THEN Null
  ELSE Candidate(p, f)

Select(v, p, f) == IF v = 1 THEN Select1(p, f) ELSE Select2(p, f)

\* (await Promise.all(files.map(...))).filter(Boolean)
SelectAll(v, tree, listed) ==
  SelectSeq([i \in 1..Len(listed) |-> Select(v, listed[i], tree[listed[i]])],
            LAMBDA c : c.path # NoPath)

(***************************************************************************)
(* The size gate and the rewrite of one file's content                     *)
(***************************************************************************)
\* Mutant of OutcomeGate: a tie keeps the artifact (> for >=).
OutcomeGateTie(avifSize, svgSize) ==
  IF avifSize > svgSize THEN "KeepOriginal" ELSE "KeepArtifact"

\* if (avifStats.size >= svgStats.size) { keep the SVG } else { replace it }
OutcomeGate(avifSize, svgSize) ==
  IF avifSize >= svgSize THEN "KeepOriginal" ELSE "KeepArtifact"

\* Mutant of Mentions: the includes test is dropped, every file is rewritten.
MentionsAlways(content, originalName) == TRUE

\* content.includes(originalName)
Mentions(content, originalName) == Includes(content, originalName)

\* content.replace(new RegExp(originalName, "g"), newName)
UpdatedContent(content, originalName, newName) ==
  RegExpReplaceAll(content, originalName, newName)

(***************************************************************************)
(* State                                                                   *)
(***************************************************************************)
VARIABLES
  variant,    \* 1: lines 1-177 of src/index.js, 2: lines 179-336
  fs,         \* the file tree: path -> [size, content]
  fs0,        \* the file tree at the start of the run (never changes)
  pcMain,     \* main's position
  files,      \* main: the SVG paths glob listed
  svgFiles,   \* main: the selected candidates
  called,     \* main: how many candidates convert was called for
  conv,       \* one frame of convert (and its updateReferences) per candidate
  exitCode,   \* -1 while the process runs, then its exit status
  writeLog    \* history: every fs.writeFile that updateReferences completed

vars == <<variant, fs, fs0, pcMain, files, svgFiles, called, conv, exitCode, writeLog>>

\* exitCode while the process has not exited.
NotExited == 0 - 1
Running == exitCode = NotExited

IdleFrame ==
  [pc |-> "idle", browser |-> "none", context |-> "none", avifPath |-> NoPath,
   typed |-> <<>>, avifSize |-> NoSize, svgSize |-> NoSize, decision |-> "none",
   textFiles |-> <<>>, ti |-> 0, updated |-> <<>>,
   \* history: the files the rewrite loop took up, those whose failure it
   \* caught, and whether updateReferences returned
   visited |-> {}, caught |-> {}, rewriteDone |-> FALSE,
   \* history: the number of downloads saved and the size of the last one,
   \* and the await that rejected
   saves |-> 0, saved |-> NoSize, raisedAt |-> "none"]

(***************************************************************************)
(* main                                                                    *)
(***************************************************************************)
\* const files = await glob("**/*.svg", ...): lists the files or rejects.
MainGlob ==
  /\ Running /\ pcMain = "glob"
  /\ \/ \E listed \in Orderings(GlobSvg(fs)) :
          /\ files' = listed
          /\ pcMain' = "analyze"
     \/ /\ pcMain' = "rejected"
        /\ UNCHANGED files
  /\ UNCHANGED <<variant, fs, fs0, svgFiles, called, conv, exitCode, writeLog>>

\* Promise.all(files.map(stat, readFile, select)).filter(Boolean): read-only;
\* a failing stat or readFile of any listed file rejects main.
MainAnalyze ==
  /\ Running /\ pcMain = "analyze"
  /\ \/ /\ \A i \in 1..Len(files) : files[i] \in DOMAIN fs
        /\ svgFiles' = SelectAll(variant, fs, files)
        /\ conv' = [k \in 1..Len(svgFiles') |-> IdleFrame]
        /\ pcMain' = "loop"
     \/ /\ Len(files) > 0
        /\ pcMain' = "rejected"
        /\ UNCHANGED <<svgFiles, conv>>
  /\ UNCHANGED <<variant, fs, fs0, files, called, exitCode, writeLog>>

\* Mutant of Awaited: convert is called without awaiting the earlier calls.
AwaitedNever(cv, k) == TRUE

\* Mutant of Awaited: a rejected call is swallowed and the loop goes on.
AwaitedSettled(cv, k) == \A j \in 1..(k - 1) : cv[j].pc \in {"returned", "raised"}

\* for (const file of svgFiles) { await convert(file); }: the loop calls
\* convert for the next candidate once every earlier call has returned.
Awaited(cv, k) == \A j \in 1..(k - 1) : cv[j].pc = "returned"

MainCall(k) ==
  /\ Running /\ pcMain = "loop"
  /\ k = called + 1 /\ k <= Len(svgFiles)
  /\ Awaited(conv, k)
  /\ conv' = [conv EXCEPT ![k].pc = "launch"]
  /\ called' = k
  /\ UNCHANGED <<variant, fs, fs0, pcMain, files, svgFiles, exitCode, writeLog>>

\* An awaited convert rejected: the loop is left, main rejects.
MainAwaitRejected ==
  /\ Running /\ pcMain = "loop"
  /\ \E k \in 1..called : conv[k].pc = "raised"
  /\ pcMain' = "rejected"
  /\ UNCHANGED <<variant, fs, fs0, files, svgFiles, called, conv, exitCode, writeLog>>

\* main().catch((error) => { console.error(...); process.exit(1); })
MainCatch ==
  /\ Running /\ pcMain = "rejected"
  /\ pcMain' = "exited"
  /\ exitCode' = 1
  /\ UNCHANGED <<variant, fs, fs0, files, svgFiles, called, conv, writeLog>>

\* The loop is over: "All files processed successfully!", main resolves.
MainDone ==
  /\ Running /\ pcMain = "loop"
  /\ called = Len(svgFiles)
  /\ Awaited(conv, called + 1)
  /\ pcMain' = "done"
  /\ exitCode' = 0
  /\ UNCHANGED <<variant, fs, fs0, files, svgFiles, called, conv, writeLog>>

(***************************************************************************)
(* convert(file): one action per await, each of which may reject.  Frame   *)
(* k is the call for svgFiles[k].                                          *)
(***************************************************************************)
At(k, label) == Running /\ k \in DOMAIN conv /\ conv[k].pc = label

\* An await of frame k rejects: convert(file) rejects; nothing is cleaned up.
Raised(f) == [f EXCEPT !.pc = "raised", !.raisedAt = f.pc]

\* const browser = await chromium.launch({ headless: false })
Launch(k) ==
  /\ At(k, "launch")
  /\ \/ conv' = [conv EXCEPT ![k].browser = "open", ![k].pc = "newContext"]
     \/ conv' = [conv EXCEPT ![k] = Raised(@)]
  /\ UNCHANGED <<variant, fs, fs0, pcMain, files, svgFiles, called, exitCode, writeLog>>

\* const context = await browser.newContext()
NewContext(k) ==
  /\ At(k, "newContext")
  /\ \/ conv' = [conv EXCEPT ![k].context = "open", ![k].pc = "newPage"]
     \/ conv' = [conv EXCEPT ![k] = Raised(@)]
  /\ UNCHANGED <<variant, fs, fs0, pcMain, files, svgFiles, called, exitCode, writeLog>>

\* const page = await context.newPage(); page.setDefaultTimeout(300000);
\* const avifPath = path.join(file.dir, file.name.replace(".svg", ".avif"))
NewPage(k) ==
  /\ At(k, "newPage")
  /\ \/ conv' = [conv EXCEPT
                   ![k].avifPath = Sibling(svgFiles[k].path, AvifName(svgFiles[k].name)),
                   ![k].pc = "goto1"]
     \/ conv' = [conv EXCEPT ![k] = Raised(@)]
  /\ UNCHANGED <<variant, fs, fs0, pcMain, files, svgFiles, called, exitCode, writeLog>>

\* The awaits that only drive the remote page: each succeeds or rejects
\* (navigation failure, missing element, the 5 minute timeout).
\*   goto1: page.goto(pixelied)          settings: Settings, slider, 100 x ArrowRight
\*   convertClick: "Convert To AVIF"     download1: "Download AVIF", the download
\*   goto2: page.goto(cloudinary)        download2: "Download", the download
RemoteNext(label) ==
  CASE label = "goto1" -> "upload1"
    [] label = "settings" -> "width"
    [] label = "convertClick" -> "download1"
    [] label = "download1" -> "save1"
    [] label = "goto2" -> "upload2"
    [] label = "download2" -> "save2"

RemoteSteps == {"goto1", "settings", "convertClick", "download1", "goto2", "download2"}

Remote(k) ==
  /\ Running /\ k \in DOMAIN conv /\ conv[k].pc \in RemoteSteps
  /\ \/ conv' = [conv EXCEPT ![k].pc = RemoteNext(@)]
     \/ conv' = [conv EXCEPT ![k] = Raised(@)]
  /\ UNCHANGED <<variant, fs, fs0, pcMain, files, svgFiles, called, exitCode, writeLog>>

\* getByLabel("Files Upload Input Box").click(); .setInputFiles(file.path)
Upload1(k) ==
  /\ At(k, "upload1")
  /\ \/ /\ svgFiles[k].path \in DOMAIN fs
        /\ conv' = [conv EXCEPT ![k].pc = "settings"]
     \/ conv' = [conv EXCEPT ![k] = Raised(@)]
  /\ UNCHANGED <<variant, fs, fs0, pcMain, files, svgFiles, called, exitCode, writeLog>>

\* the "Width (Optional)" textbox: click(); fill(file.width.toString())
FillWidth(k) ==
  /\ At(k, "width")
  /\ \/ conv' = [conv EXCEPT ![k].typed = <<svgFiles[k].width>>, ![k].pc = "convertClick"]
     \/ conv' = [conv EXCEPT ![k] = Raised(@)]
  /\ UNCHANGED <<variant, fs, fs0, pcMain, files, svgFiles, called, exitCode, writeLog>>

\* The sizes a remote tool's output may have.
AvifSizes == {6 * 1024, 10 * 1024, 15 * 1024}

\* await download.saveAs(avifPath): the converter's output, of any size.
Save1(k) ==
  /\ At(k, "save1")
  /\ \/ \E sz \in AvifSizes :
          /\ fs' = WriteFile(fs, conv[k].avifPath, File(sz, <<>>))
          /\ conv' = [conv EXCEPT ![k].pc = "goto2", ![k].saves = @ + 1, ![k].saved = sz]
     \/ /\ conv' = [conv EXCEPT ![k] = Raised(@)]
        /\ UNCHANGED fs
  /\ UNCHANGED <<variant, fs0, pcMain, files, svgFiles, called, exitCode, writeLog>>

\* "Upload" click; the upload widget's textbox: click(); setInputFiles(avifPath)
Upload2(k) ==
  /\ At(k, "upload2")
  /\ \/ /\ conv[k].avifPath \in DOMAIN fs
        /\ conv' = [conv EXCEPT ![k].pc = "download2"]
     \/ conv' = [conv EXCEPT ![k] = Raised(@)]
  /\ UNCHANGED <<variant, fs, fs0, pcMain, files, svgFiles, called, exitCode, writeLog>>

\* await compressedDownload.saveAs(avifPath): overwrites the first download.
\* The first variant goes on to the size check, the second to the rewrite.
Save2(k) ==
  /\ At(k, "save2")
  /\ \/ \E sz \in AvifSizes :
          /\ fs' = WriteFile(fs, conv[k].avifPath, File(sz, <<>>))
          /\ conv' = [conv EXCEPT ![k].pc = IF variant = 1 THEN "statAvif" ELSE "updateGlob",
                                  ![k].saves = @ + 1, ![k].saved = sz]
     \/ /\ conv' = [conv EXCEPT ![k] = Raised(@)]
        /\ UNCHANGED fs
  /\ UNCHANGED <<variant, fs0, pcMain, files, svgFiles, called, exitCode, writeLog>>

\* const avifStats = await fs.stat(avifPath)
StatAvif(k) ==
  /\ At(k, "statAvif")
  /\ \/ /\ conv[k].avifPath \in DOMAIN fs
        /\ conv' = [conv EXCEPT ![k].avifSize = fs[conv[k].avifPath].size,
                                ![k].pc = "statSvg"]
     \/ conv' = [conv EXCEPT ![k] = Raised(@)]
  /\ UNCHANGED <<variant, fs, fs0, pcMain, files, svgFiles, called, exitCode, writeLog>>

\* const svgStats = await fs.stat(file.path)
StatSvg(k) ==
  /\ At(k, "statSvg")
  /\ \/ /\ svgFiles[k].path \in DOMAIN fs
        /\ conv' = [conv EXCEPT ![k].svgSize = fs[svgFiles[k].path].size,
                                ![k].pc = "gate"]
     \/ conv' = [conv EXCEPT ![k] = Raised(@)]
  /\ UNCHANGED <<variant, fs, fs0, pcMain, files, svgFiles, called, exitCode, writeLog>>

\* if (avifStats.size >= svgStats.size) ... (synchronous, cannot reject)
Gate(k) ==
  /\ At(k, "gate")
  /\ LET d == OutcomeGate(conv[k].avifSize, conv[k].svgSize)
     IN  conv' = [conv EXCEPT ![k].decision = d,
                              ![k].pc = IF d = "KeepOriginal" THEN "unlinkAvif"
                                        ELSE "updateGlob"]
  /\ UNCHANGED <<variant, fs, fs0, pcMain, files, svgFiles, called, exitCode, writeLog>>

\* Mutant of UnlinkAvif: the artifact is left in place.
UnlinkAvifSkipped(k) ==
  /\ At(k, "unlinkAvif")
  /\ conv' = [conv EXCEPT ![k].pc = "closeContext"]
  /\ UNCHANGED <<variant, fs, fs0, pcMain, files, svgFiles, called, exitCode, writeLog>>

\* await fs.unlink(avifPath)   (KeepOriginal)
UnlinkAvif(k) ==
  /\ At(k, "unlinkAvif")
  /\ \/ /\ conv[k].avifPath \in DOMAIN fs
        /\ fs' = Unlink(fs, conv[k].avifPath)
        /\ conv' = [conv EXCEPT ![k].pc = "closeContext"]
     \/ /\ conv' = [conv EXCEPT ![k] = Raised(@)]
        /\ UNCHANGED fs
  /\ UNCHANGED <<variant, fs0, pcMain, files, svgFiles, called, exitCode, writeLog>>

\* await context.close()   (lines 104 and 116)
CloseContext(k) ==
  /\ At(k, "closeContext")
  /\ \/ conv' = [conv EXCEPT ![k].context = "closed", ![k].pc = "closeBrowser"]
     \/ conv' = [conv EXCEPT ![k] = Raised(@)]
  /\ UNCHANGED <<variant, fs, fs0, pcMain, files, svgFiles, called, exitCode, writeLog>>

\* await browser.close(), then `return` (line 106, KeepOriginal) or the
\* deletion of the SVG file.
CloseBrowser(k) ==
  /\ At(k, "closeBrowser")
  /\ \/ conv' = [conv EXCEPT ![k].browser = "closed",
                             ![k].pc = IF conv[k].decision = "KeepOriginal"
                                       THEN "returned" ELSE "unlinkSvg"]
     \/ conv' = [conv EXCEPT ![k] = Raised(@)]
  /\ UNCHANGED <<variant, fs, fs0, pcMain, files, svgFiles, called, exitCode, writeLog>>

\* await fs.unlink(file.path), the end of convert
UnlinkSvg(k) ==
  /\ At(k, "unlinkSvg")
  /\ \/ /\ svgFiles[k].path \in DOMAIN fs
        /\ fs' = Unlink(fs, svgFiles[k].path)
        /\ conv' = [conv EXCEPT ![k].pc = "returned"]
     \/ /\ conv' = [conv EXCEPT ![k] = Raised(@)]
        /\ UNCHANGED fs
  /\ UNCHANGED <<variant, fs0, pcMain, files, svgFiles, called, exitCode, writeLog>>

(***************************************************************************)
(* updateReferences(originalName, newName), called by convert with         *)
(* originalName = file.name and newName = originalName.replace(".svg",     *)
(* ".avif")                                                                *)
(***************************************************************************)
OriginalName(k) == svgFiles[k].name
NewName(k) == AvifName(OriginalName(k))

\* The loop goes to its next file; after the last one updateReferences
\* returns and convert goes on to close the session.
NextFile(f) ==
  IF f.ti + 1 > Len(f.textFiles)
  THEN [f EXCEPT !.ti = @ + 1, !.pc = "closeContext", !.rewriteDone = TRUE]
  ELSE [f EXCEPT !.ti = @ + 1, !.pc = "readText"]

\* Mutant of Caught: the error is not caught and ends convert.
CaughtRethrown(f) == Raised([f EXCEPT !.caught = @ \cup {f.textFiles[f.ti]}])

\* catch (error) { console.error(...) }: the file is skipped.
Caught(f) == NextFile([f EXCEPT !.caught = @ \cup {f.textFiles[f.ti]}])

\* const textFiles = await glob("**/*.{js,...}", ...): outside the try block.
UpdateGlob(k) ==
  /\ At(k, "updateGlob")
  /\ \/ \E listed \in Orderings(GlobText(fs)) :
          conv' = [conv EXCEPT ![k] = NextFile([@ EXCEPT !.textFiles = listed, !.ti = 0])]
     \/ conv' = [conv EXCEPT ![k] = Raised(@)]
  /\ UNCHANGED <<variant, fs, fs0, pcMain, files, svgFiles, called, exitCode, writeLog>>

\* try { const content = await fs.readFile(filePath, "utf8");
\*       if (content.includes(originalName)) { const updatedContent = ... } }
\* A failing read, and a RegExp constructor that throws, end in the catch.
ReadText(k) ==
  /\ At(k, "readText")
  /\ LET f == conv[k]
         file == f.textFiles[f.ti]
         seen == [f EXCEPT !.visited = @ \cup {file}]
     IN  \/ /\ file \in DOMAIN fs
            /\ conv' = [conv EXCEPT ![k] =
                 IF ~Mentions(fs[file].content, OriginalName(k)) THEN NextFile(seen)
                 ELSE IF ~RegExpValid(OriginalName(k)) THEN Caught(seen)
                 ELSE [seen EXCEPT
                         !.updated = UpdatedContent(fs[file].content, OriginalName(k), NewName(k)),
                         !.pc = "writeText"]]
         \/ conv' = [conv EXCEPT ![k] = Caught(seen)]
  /\ UNCHANGED <<variant, fs, fs0, pcMain, files, svgFiles, called, exitCode, writeLog>>

\* await fs.writeFile(filePath, updatedContent, "utf8"), inside the try block
WriteText(k) ==
  /\ At(k, "writeText")
  /\ LET f == conv[k]
         file == f.textFiles[f.ti]
     IN  \/ /\ fs' = WriteFile(fs, file, File(Len(f.updated), f.updated))
            /\ writeLog' = writeLog \cup
                 {[cand |-> k, path |-> file, before |-> fs[file].content, after |-> f.updated]}
            /\ conv' = [conv EXCEPT ![k] = NextFile([@ EXCEPT !.updated = <<>>])]
         \/ /\ conv' = [conv EXCEPT ![k] = Caught([@ EXCEPT !.updated = <<>>])]
            /\ UNCHANGED <<fs, writeLog>>
  /\ UNCHANGED <<variant, fs0, pcMain, files, svgFiles, called, exitCode>>

(***************************************************************************)
(* The trees a run starts from                                             *)
(***************************************************************************)
MaxSvg == 2
MaxText == 2
MaxWords == 2

NameA == <<"a", ".", "s", "v", "g">>
NameParen == <<"(", "1", ")", ".", "s", "v", "g">>
NameOpen == <<"(", ".", "s", "v", "g">>

SvgW100Image == <<SvgWidthOpen, "1", "0", "0", Quote, ">", ImageOpen, "/>", "</svg>">>
SvgW500 == <<SvgWidthOpen, "5", "0", "0", Quote, ">", "<path", "/>", "</svg>">>
SvgNoWidthImage == <<"<svg", ">", ImageOpen, "/>", "</svg>">>

Entry(p, f) == [path |-> p, file |-> f]
Text(p, c) == Entry(p, File(Len(c), c))

\* SVG files a tree may hold: sizes below, at and above the threshold, with
\* and without a width and an <image>, one in an ignored directory.
SvgCatalogue ==
  { Entry(Path(<<>>, NameA), File(12 * 1024, SvgW100Image)),
    Entry(Path(<<>>, NameA), File(10 * 1024 - 1, SvgW100Image)),
    Entry(Path(<<>>, NameParen), File(10 * 1024, SvgW500)),
    Entry(Path(<<>>, NameParen), File(12 * 1024, SvgNoWidthImage)),
    Entry(Path(<<"node_modules">>, NameA), File(12 * 1024, SvgW100Image)) }

ReadmeMd == Path(<<>>, <<"r", ".", "m", "d">>)
IndexJs == Path(<<"src">>, <<"i", ".", "j", "s">>)

Sp == <<" ">>
TextNone == <<"x">>

\* Text files a tree may hold: with and without the names of the SVG files.
TextCatalogue ==
  { Text(ReadmeMd, NameA),
    Text(ReadmeMd, TextNone),
    Text(IndexJs, NameA \o Sp \o NameParen),
    Text(IndexJs, NameParen) }

\* The sets of at most n entries of a catalogue with pairwise different paths.
Picks(cat, n) ==
  {S \in SUBSET cat :
     /\ Cardinality(S) <= n
     /\ \A x, y \in S : x.path = y.path => x = y}

TreeOf(S) == [p \in {x.path : x \in S} |-> (CHOOSE x \in S : x.path = p).file]

\* The words of a text file of the rewrite scenarios: the names, strings a
\* name matches as a pattern but not literally, and a string that holds a name.
Words ==
  { NameA, <<"a", "-", "s", "v", "g">>, <<"b">> \o NameA,
    NameParen, <<"1", ".", "s", "v", "g">>, NameOpen }

RECURSIVE Joined(_)
\* The words of ws, separated by spaces.
Joined(ws) ==
  IF ws = <<>> THEN <<>>
  ELSE IF Len(ws) = 1 THEN ws[1]
  ELSE ws[1] \o Sp \o Joined(Tail(ws))

WordTexts == {Joined(ws) : ws \in UNION {[1..n -> Words] : n \in 0..MaxWords}}

InitProgram ==
  /\ fs0 = fs
  /\ pcMain = "glob"
  /\ files = <<>>
  /\ svgFiles = <<>>
  /\ called = 0
  /\ conv = <<>>
  /\ exitCode = NotExited
  /\ writeLog = {}

Init ==
  /\ variant \in {1, 2}
  /\ \E S \in Picks(SvgCatalogue, MaxSvg), T \in Picks(TextCatalogue, MaxText) :
       fs = TreeOf(S \cup T)
  /\ InitProgram

\* The rewrite scenarios: one large SVG file with a width and an <image>
\* (a candidate of both variants), a README of any words and, or not, a
\* script that names the SVG file.
InitRewrite ==
  /\ variant \in {1, 2}
  /\ \E n \in {NameA, NameParen, NameOpen}, c \in WordTexts, more \in BOOLEAN :
       fs = TreeOf({Entry(Path(<<>>, n), File(12 * 1024, SvgW100Image)), Text(ReadmeMd, c)}
                   \cup IF more THEN {Text(IndexJs, n)} ELSE {})
  /\ InitProgram

MaxWidthLen == 3

\* The characters of a declared width: digits, and characters of widths that
\* are not numbers ("100%", "abc").
WidthChars == {"0", "1", "5", "%", "a"}
WidthStrings == UNION {[1..n -> WidthChars] : n \in 0..MaxWidthLen}

SvgWidth(w) == <<SvgWidthOpen>> \o w \o <<Quote, ">", ImageOpen, "/>", "</svg>">>

\* The width scenarios: one large SVG file with an <image> that declares any
\* width of at most MaxWidthLen characters, or none, and a README naming it.
InitWidth ==
  /\ variant \in {1, 2}
  /\ \E c \in {SvgWidth(w) : w \in WidthStrings} \cup {SvgNoWidthImage} :
       fs = TreeOf({Entry(Path(<<>>, NameA), File(12 * 1024, c)), Text(ReadmeMd, NameA)})
  /\ InitProgram

NameBA == <<"b">> \o NameA
NameSvgSvg == NameA \o DotSvg
NameAvifSvg == AvifName(NameA) \o DotSvg

\* SVG files whose names are alike: the same name in two directories, a name
\* that holds another, names with ".svg" twice.  All are candidates of both
\* variants.
NameCatalogue ==
  { Entry(Path(<<>>, n), File(12 * 1024, SvgW100Image)) :
      n \in {NameA, NameBA, NameSvgSvg, NameAvifSvg} }
  \cup {Entry(Path(<<"d">>, NameA), File(12 * 1024, SvgW100Image))}

\* How a text file refers to a file: its path relative to currentDir.
Ref(p) == IF p.dir = <<>> THEN p.name ELSE p.dir \o <<"/">> \o p.name

\* The name scenarios: SVG files of the name catalogue and a README that
\* refers to each of them once.
InitNames ==
  /\ variant \in {1, 2}
  /\ \E S \in Picks(NameCatalogue, MaxSvg) :
       LET refs == CHOOSE q \in Orderings({x.path : x \in S}) : TRUE
       IN  fs = TreeOf(S \cup {Text(ReadmeMd, Joined([i \in DOMAIN refs |-> Ref(refs[i])]))})
  /\ InitProgram

Next ==
  \/ MainGlob
  \/ MainAnalyze
  \/ \E k \in 1..Len(svgFiles) : MainCall(k)
  \/ MainAwaitRejected
  \/ MainCatch
  \/ MainDone
  \/ \E k \in DOMAIN conv : Launch(k)
  \/ \E k \in DOMAIN conv : NewContext(k)
  \/ \E k \in DOMAIN conv : NewPage(k)
  \/ \E k \in DOMAIN conv : Remote(k)
  \/ \E k \in DOMAIN conv : Upload1(k)
  \/ \E k \in DOMAIN conv : FillWidth(k)
  \/ \E k \in DOMAIN conv : Save1(k)
  \/ \E k \in DOMAIN conv : Upload2(k)
  \/ \E k \in DOMAIN conv : Save2(k)
  \/ \E k \in DOMAIN conv : StatAvif(k)
  \/ \E k \in DOMAIN conv : StatSvg(k)
  \/ \E k \in DOMAIN conv : Gate(k)
  \/ \E k \in DOMAIN conv : UnlinkAvif(k)
  \/ \E k \in DOMAIN conv : UpdateGlob(k)
  \/ \E k \in DOMAIN conv : ReadText(k)
  \/ \E k \in DOMAIN conv : WriteText(k)
  \/ \E k \in DOMAIN conv : CloseContext(k)
  \/ \E k \in DOMAIN conv : CloseBrowser(k)
  \/ \E k \in DOMAIN conv : UnlinkSvg(k)

Spec == Init /\ [][Next]_vars

SpecRewrite == InitRewrite /\ [][Next]_vars

SpecWidth == InitWidth /\ [][Next]_vars
SpecNames == InitNames /\ [][Next]_vars

(***************************************************************************)
(* Properties                                                              *)
(***************************************************************************)
Frames == DOMAIN conv
Ended(k) == conv[k].pc \in {"returned", "raised"}
SvgPath(k) == svgFiles[k].path
Deleted(k) == SvgPath(k) \notin DOMAIN fs
Logged(k) == {e \in writeLog : e.cand = k}

\* C1: when convert has ended for a candidate, its original SVG file is deleted
\* if and only if the gate decided KeepArtifact, the rewrite completed and no
\* stage raised; in every other outcome the original still exists.
C1_DeletedIffAccepted ==
  \A k \in Frames :
    Ended(k) =>
      (Deleted(k) <=>
         (conv[k].decision = "KeepArtifact" /\ conv[k].rewriteDone /\ conv[k].pc = "returned"))

\* C2: whenever convert has ended, by return or by a raised error, the browser
\* and the context it launched are closed.
C2_BrowserClosedOnExit ==
  \A k \in Frames :
    Ended(k) => (conv[k].browser # "open" /\ conv[k].context # "open")

\* C3: the gate decides KeepArtifact exactly when the artifact's size is
\* strictly smaller than the source's size, KeepOriginal otherwise (ties
\* included); the sizes it compares are those of the two files.
C3_GateStrict ==
  \A k \in Frames :
    conv[k].decision # "none" =>
      /\ conv[k].decision \in {"KeepArtifact", "KeepOriginal"}
      /\ conv[k].decision = "KeepArtifact" <=> conv[k].avifSize < conv[k].svgSize
      /\ conv[k].decision = "KeepOriginal" <=> conv[k].avifSize >= conv[k].svgSize
      /\ conv[k].svgSize = fs0[SvgPath(k)].size
      /\ conv[k].avifSize \in AvifSizes

\* C3 witness: a tie was decided, and it kept the original.
C3_Witness ==
  \E k \in Frames :
    conv[k].decision = "KeepOriginal" /\ conv[k].avifSize = conv[k].svgSize

\* C4: after convert returned with KeepOriginal the artifact does not exist,
\* the original exists with its content unchanged, and the rewrite never ran
\* for the candidate: no text file was listed, read or written for it.
C4_KeepOriginalFrame ==
  \A k \in Frames :
    (conv[k].pc = "returned" /\ conv[k].decision = "KeepOriginal") =>
      /\ conv[k].avifPath \notin DOMAIN fs
      /\ SvgPath(k) \in DOMAIN fs
      /\ fs[SvgPath(k)] = fs0[SvgPath(k)]
      /\ Logged(k) = {}
      /\ conv[k].visited = {} /\ conv[k].textFiles = <<>> /\ ~conv[k].rewriteDone

\* C4 witness: a conversion returned with KeepOriginal in a tree where a text
\* file names the candidate.
C4_Witness ==
  \E k \in Frames :
    /\ conv[k].pc = "returned" /\ conv[k].decision = "KeepOriginal"
    /\ \E p \in GlobText(fs) : Includes(fs[p].content, svgFiles[k].name)

Range(q) == {q[i] : i \in 1..Len(q)}
Position(q, x) == CHOOSE i \in 1..Len(q) : q[i] = x

\* C5: every write of updateReferences stores the content read with every
\* literal occurrence of originalName replaced by newName and every other
\* character unchanged, metacharacters in originalName included.
C5_LiteralRewrite ==
  \A e \in writeLog :
    e.after = LiteralReplaceAll(e.before, OriginalName(e.cand), NewName(e.cand))

\* C6: updateReferences writes no file whose content does not contain
\* originalName: every completed write was to a file that contained it, and a
\* scanned file that was never written still has its content.
C6_NoWriteWithoutMention ==
  /\ \A e \in writeLog : Includes(e.before, OriginalName(e.cand))
  /\ \A p \in GlobText(fs0) :
       (\A e \in writeLog : e.path # p) => (p \in DOMAIN fs /\ fs[p] = fs0[p])

\* C6 witness: a rewrite is over that read a file without the name and left
\* it alone, and wrote another file.
C6_Witness ==
  \E k \in Frames :
    /\ conv[k].rewriteDone
    /\ Logged(k) # {}
    /\ \E p \in conv[k].visited \ conv[k].caught :
         /\ ~Includes(fs0[p].content, OriginalName(k))
         /\ fs[p] = fs0[p]

\* C7: a failure on one file of the rewrite is caught and does not abort the
\* scan: convert never ends by an error raised inside the loop, and when the
\* loop is over every listed file was taken up and every file that names the
\* candidate, but those that failed, was written.
C7_FailureDoesNotAbortScan ==
  \A k \in Frames :
    /\ conv[k].pc = "raised" => (conv[k].rewriteDone \/ conv[k].visited = {})
    /\ conv[k].caught \subseteq conv[k].visited
    /\ (conv[k].pc = "closeContext" /\ conv[k].rewriteDone) =>
         /\ conv[k].visited = Range(conv[k].textFiles)
         /\ \A p \in Range(conv[k].textFiles) \ conv[k].caught :
              Includes(fs[p].content, OriginalName(k)) => \E e \in Logged(k) : e.path = p

\* C7 witness: a failure was caught on one file, a file listed after it was
\* rewritten, and convert went on to delete the original and returned.
C7_Witness ==
  \E k \in Frames :
    /\ conv[k].pc = "returned" /\ Deleted(k)
    /\ \E p \in conv[k].caught, e \in Logged(k) :
         /\ e.path \notin conv[k].caught
         /\ Position(conv[k].textFiles, p) < Position(conv[k].textFiles, e.path)

InProgress(k) == conv[k].pc \notin {"idle", "returned", "raised"}

\* C8: at most one conversion session is in progress and at most one browser
\* is open at any time: convert for a candidate has not started unless the
\* call for the candidate before it has returned.
C8_OneSessionAtATime ==
  /\ Cardinality({k \in Frames : InProgress(k)}) <= 1
  /\ Cardinality({k \in Frames : conv[k].browser = "open"}) <= 1
  /\ \A k \in Frames :
       (k > 1 /\ conv[k].pc # "idle") => conv[k - 1].pc = "returned"

\* C8 witness: the session of a second candidate has its browser open.
C8_Witness ==
  \E k \in Frames : k > 1 /\ InProgress(k) /\ conv[k].browser = "open"

\* The candidates after k are untouched: never converted, rewritten or deleted.
Untouched(j) ==
  /\ conv[j] = IdleFrame
  /\ Logged(j) = {}
  /\ SvgPath(j) \in DOMAIN fs /\ fs[SvgPath(j)] = fs0[SvgPath(j)]

C9_Halted ==
  /\ \A k \in Frames : conv[k].pc = "raised" => \A j \in Frames : j > k => Untouched(j)
  /\ \A k \in Frames : InProgress(k) => (Running /\ pcMain = "loop")
  /\ (pcMain \in {"rejected", "exited"} \/ \E k \in Frames : conv[k].pc = "raised")
       => exitCode \in {NotExited, 1}
  /\ pcMain = "exited" => exitCode = 1
  /\ pcMain \in {"glob", "analyze"} => conv = <<>>

\* C9: when a stage raises, the batch halts: no later candidate is converted,
\* rewritten or deleted, the failed candidate is not retried, and the process
\* exits with status 1.
C9_FatalErrorHaltsBatch ==
  /\ []C9_Halted
  /\ [][\A k \in Frames : conv[k].pc = "raised" => (k \in DOMAIN conv' /\ conv'[k] = conv[k])]_vars
  /\ ((pcMain = "rejected" \/ \E k \in Frames : conv[k].pc = "raised") ~> (exitCode = 1))

\* C9 witness: the first of two candidates raised, the process has exited
\* with status 1 and the second candidate is untouched.
C9_Witness ==
  /\ exitCode = 1
  /\ \E k \in Frames : conv[k].pc = "raised" /\ k < Len(svgFiles)

Selected(p) == \E i \in 1..Len(svgFiles) : svgFiles[i].path = p
Analyzed == pcMain \in {"loop", "done"}

\* C10 as claimed: in either variant, a discovered SVG file below 10240 bytes
\* is never selected.
C10_SmallNeverSelected ==
  \A p \in GlobSvg(fs0) : fs0[p].size < 10240 => ~Selected(p)

\* C10 as amended: in the first variant a discovered SVG file below 10240
\* bytes is never selected, converted, deleted or rewritten for, whether or
\* not it declares a width, and a file of exactly 10240 bytes that declares a
\* width is selected; the second variant selects by width and <image> alone,
\* whatever the size.
C10_SizeThreshold ==
  /\ variant = 1 =>
       \A p \in GlobSvg(fs0) :
         /\ fs0[p].size < 10240 =>
              (~Selected(p) /\ p \in DOMAIN fs /\ fs[p] = fs0[p])
         /\ (Analyzed /\ fs0[p].size >= 10240 /\ ~Falsy(ExecWidth(fs0[p].content)))
              => Selected(p)
  /\ variant = 2 =>
       \A p \in GlobSvg(fs0) :
         Analyzed =>
           (Selected(p) <=>
              (~Falsy(ExecWidth(fs0[p].content)) /\ TestImage(fs0[p].content)))

\* C10 witness: a run of the first variant is over in a tree with a file of
\* 10239 bytes that declares a width, not selected, and a file of exactly
\* 10240 bytes, selected.
C10_Witness ==
  /\ variant = 1 /\ pcMain = "done"
  /\ \E p, q \in GlobSvg(fs0) :
       /\ fs0[p].size = 10239 /\ ~Falsy(ExecWidth(fs0[p].content)) /\ ~Selected(p)
       /\ fs0[q].size = 10240 /\ Selected(q)

\* Node's event loop runs every pending continuation, and every await of the
\* program settles (the remote ones within the page's timeout): a step that
\* can be taken is taken.
FairSpec == Init /\ [][Next]_vars /\ WF_vars(Next)


\* The width a discovered file declares is a number: a non-empty string of
\* decimal digits in the first attribute of the root element.
NumericWidth(content) ==
  LET w == ExecWidth(content)
  IN  w # NoMatch /\ w # <<>> /\ \A i \in 1..Len(w) : w[i] \in Digits

\* C11: a discovered SVG file without a parsable numeric width (absent, empty
\* or not a number) is never selected, and no candidate has a target width
\* that is not a number.
C11_MalformedWidthRejected ==
  /\ \A p \in GlobSvg(fs0) : ~NumericWidth(fs0[p].content) => ~Selected(p)
  /\ \A i \in 1..Len(svgFiles) : ~svgFiles[i].width.nan


DeclaredWidth(k) == ExecWidth(fs0[SvgPath(k)].content)

\* C14: for every candidate that declares a numeric width W the target width
\* is round(3.12476 * W + 0.196661), the integer nearest to it (313 for 100,
\* 1563 for 500), and the value typed into the converter's width field is the
\* value computed at selection.
C14_TargetWidthRounded ==
  \A k \in Frames :
    /\ NumericWidth(fs0[SvgPath(k)].content) =>
         LET W == DecimalValue(DeclaredWidth(k))
             t == svgFiles[k].width.int
             \* 3.12476 * W + 0.196661 - 3 * W and t - 3 * W, in millionths
             x == 124760 * W + 196661
             r == 1000000 * (t - 3 * W)
         IN  /\ ~svgFiles[k].width.nan
             /\ r - 500000 <= x /\ x < r + 500000
             /\ W = 100 => t = 313
             /\ W = 500 => t = 1563
    /\ conv[k].typed # <<>> => conv[k].typed = <<svgFiles[k].width>>
    /\ conv[k].pc = "returned" => conv[k].typed # <<>>

\* C14 witness: a candidate declaring width 100 had 313 typed into the field.
C14_Witness ==
  \E k \in Frames :
    /\ DeclaredWidth(k) = <<"1", "0", "0">>
    /\ conv[k].typed = <<Num(313)>>


\* The name with its final four characters, the extension, replaced by ".avif".
FinalExtensionReplaced(name) == SubSeq(name, 1, Len(name) - Len(DotSvg)) \o DotAvif

\* C12: for every candidate the artifact path and the new name differ from
\* the original only in the extension: the final ".svg" becomes ".avif", the
\* directory and the rest of the name stay, and the new name is non-empty and
\* differs from the original name.
C12_OnlyExtensionChanges ==
  \A k \in Frames :
    conv[k].avifPath # NoPath =>
      /\ conv[k].avifPath = Sibling(SvgPath(k), FinalExtensionReplaced(OriginalName(k)))
      /\ NewName(k) = FinalExtensionReplaced(OriginalName(k))
      /\ NewName(k) # <<>>
      /\ NewName(k) # OriginalName(k)


ArtifactPath(k) == Sibling(SvgPath(k), AvifName(OriginalName(k)))

\* C16: in every reachable state, for each selected candidate the original or
\* its artifact exists, and an original that no longer exists was deleted
\* after the artifact was saved, the gate accepted it, the rewrite completed
\* and the browser was closed.
C16_NoImageLost ==
  \A k \in 1..Len(svgFiles) :
    /\ SvgPath(k) \in DOMAIN fs \/ ArtifactPath(k) \in DOMAIN fs
    /\ Deleted(k) =>
         /\ k \in Frames
         /\ ArtifactPath(k) \in DOMAIN fs
         /\ conv[k].decision = "KeepArtifact"
         /\ conv[k].rewriteDone
         /\ conv[k].browser = "closed"

RECURSIVE Split(_)
\* The words of a text: its parts between the spaces.
Split(s) ==
  IF \A i \in 1..Len(s) : s[i] # " " THEN <<s>>
  ELSE LET i == CHOOSE j \in 1..Len(s) : s[j] = " " /\ \A h \in 1..(j - 1) : s[h] # " "
       IN  <<SubSeq(s, 1, i - 1)>> \o Split(SubSeq(s, i + 1, Len(s)))

Names(tree, word) == \E p \in DOMAIN tree : Ref(p) = word

\* The candidate was accepted: the gate decided KeepArtifact or, without a
\* gate, the rewrite took place.
Accepted(k) ==
  k \in Frames /\ (conv[k].decision = "KeepArtifact" \/ conv[k].rewriteDone \/ Logged(k) # {})

NonAccepted(p) == \A k \in 1..Len(svgFiles) : SvgPath(k) = p => ~Accepted(k)

BatchEnded == pcMain \in {"done", "exited"}

\* C18: after a batch, every reference of the README to an SVG file that was
\* not accepted still names an existing file, and every reference that was
\* rewritten names an existing artifact.
C18_ReferencesStayValid ==
  (BatchEnded /\ ReadmeMd \in DOMAIN fs) =>
    LET before == Split(fs0[ReadmeMd].content)
        after == Split(fs[ReadmeMd].content)
    IN  /\ Len(after) = Len(before)
        /\ \A i \in 1..Len(before) :
             /\ (\E p \in DOMAIN fs0 : Ref(p) = before[i] /\ NonAccepted(p)) =>
                  Names(fs, after[i])
             /\ after[i] # before[i] =>
                  \E k \in Frames : Ref(conv[k].avifPath) = after[i]
                                    /\ conv[k].avifPath \in DOMAIN fs


NoStageRaised ==
  /\ pcMain = "done"
  /\ \A k \in Frames : conv[k].pc # "raised" /\ conv[k].caught = {}

\* C13: when no stage raised, main exits 0 after one convert per selected
\* candidate, each run to its end, and for each accepted candidate the artifact
\* is present, the original is removed and no text file refers to the
\* original name any more.
C13_BatchCompletes ==
  NoStageRaised =>
    /\ exitCode = 0
    /\ called = Len(svgFiles)
    /\ \A k \in 1..Len(svgFiles) :
         /\ conv[k].pc = "returned"
         /\ Accepted(k) =>
              /\ conv[k].avifPath \in DOMAIN fs
              /\ Deleted(k)
              /\ \A p \in GlobText(fs) : ~Includes(fs[p].content, OriginalName(k))


RewriteStarted(k) ==
  \/ conv[k].pc \in {"updateGlob", "readText", "writeText"}
  \/ conv[k].visited # {} \/ conv[k].rewriteDone \/ Logged(k) # {}

\* C15: the sizes are read after both downloads were saved, the gate compares
\* the size of the second tool's output with the size of the original, and no
\* rewrite or deletion of the original takes place before the comparison.
C15_GateOnSecondOutput ==
  \A k \in Frames :
    /\ conv[k].avifSize # NoSize => conv[k].saves = 2 /\ conv[k].avifSize = conv[k].saved
    /\ conv[k].svgSize # NoSize => conv[k].avifSize # NoSize
    /\ conv[k].decision # "none" =>
         /\ conv[k].svgSize # NoSize
         /\ conv[k].decision = OutcomeGate(conv[k].saved, conv[k].svgSize)
    /\ (RewriteStarted(k) \/ Deleted(k)) => conv[k].decision # "none"


\* The awaits of convert that come before the gate.
PreGateSteps ==
  {"launch", "newContext", "newPage", "upload1", "width", "save1", "upload2", "save2",
   "statAvif", "statSvg"} \cup RemoteSteps

\* C17: when a session raises before the gate, the original SVG file still
\* exists as it was and no text file was rewritten for that candidate; no step
\* of a session before the gate changes anything in the tree but the file at
\* the artifact path.
C17_FailedSessionLeavesTree ==
  /\ [](\A k \in Frames :
          conv[k].raisedAt \in PreGateSteps =>
            /\ SvgPath(k) \in DOMAIN fs /\ fs[SvgPath(k)] = fs0[SvgPath(k)]
            /\ Logged(k) = {})
  /\ [][\A k \in Frames :
          (conv[k].pc \in PreGateSteps /\ conv'[k] # conv[k]) =>
            /\ writeLog' = writeLog
            /\ \A p \in (DOMAIN fs \cup DOMAIN fs') \ {ArtifactPath(k)} :
                 p \in DOMAIN fs /\ p \in DOMAIN fs' /\ fs'[p] = fs[p]]_vars

====
